---- MODULE Spec2Model ----
(***************************************************************************)
(* The Werewolf phase state machines and the dispatch/matching engine.     *)
(*                                                                         *)
(*   forum  : forum/worlds/werewolf/machine.py  (Start/Night/Day/End,      *)
(*            drives a Werewolf game through dispatch rounds)              *)
(*   direct : werewolf.py WerewolfMachine.handle_message called directly   *)
(*            (Night/Day/Finished, no player data)                         *)
(*   stdin  : werewolf.py stdin_reader driving the same machine            *)
(*                                                                         *)
(* One behaviour is one run of one of the three programs (variable         *)
(* `which`), or one call of a function of the package on its own.          *)
(***************************************************************************)
EXTENDS Integers, Sequences, FiniteSets, TLC

\* ---------------------------------------------------------------- bounds
MaxSends == 4      \* actions the agents trigger in one run
MaxTarget == 0     \* agents choose `selected` in 0..MaxTarget
MaxCalls == 4      \* commands given to the Night/Day/Finished machine
MaxAgents == 3     \* agents of a game given to a function called on its own

\* Python's None for an Optional[AgentIndex]
None == -1

TNA == "TransitionNotAllowed"

\* ------------------------------------------------------------- game rules
AllRoles == {"Werewolf", "Villager", "Seer", "Doctor"}

\* Team.roles
TeamRoles(team) ==
    IF team = "Werewolves" THEN {"Werewolf"} ELSE {"Villager", "Seer", "Doctor"}

\* Games built with Werewolf.from_roles(*roles)
Fixtures ==
    { <<"Werewolf", "Seer", "Doctor">>,
      <<"Villager", "Werewolf", "Doctor">>,
      <<"Villager", "Werewolf", "Villager", "Villager">>,
      <<"Werewolf", "Seer">> }

\* roles are indexed by AgentIndex, 0 .. n-1
FromTuple(f) == [i \in 0 .. (Len(f) - 1) |-> f[i + 1]]

\* Werewolf.from_roles: every agent knows itself, werewolves know each other
InitialKnown(rs) ==
    LET werewolves == {i \in DOMAIN rs : rs[i] = "Werewolf"}
    IN  [i \in DOMAIN rs |-> IF i \in werewolves THEN {i} \cup werewolves ELSE {i}]

\* Werewolf.survivors(*role_filters); R is the set of counted roles
Survivors(rs, al, R) == {i \in DOMAIN rs : al[i] /\ rs[i] \in R}

WinnerMutant(rs, al) ==
    LET werewolves == Cardinality(Survivors(rs, al, TeamRoles("Werewolves")))
        villagers  == Cardinality(Survivors(rs, al, TeamRoles("Villagers")))
    IN  IF werewolves = 0 THEN "Villagers"
        ELSE IF villagers < werewolves THEN "Werewolves"
        ELSE "None"

\* Werewolf.winner
Winner(rs, al) ==
    LET werewolves == Cardinality(Survivors(rs, al, TeamRoles("Werewolves")))
        villagers  == Cardinality(Survivors(rs, al, TeamRoles("Villagers")))
    IN  IF werewolves = 0 THEN "Villagers"
        ELSE IF villagers <= werewolves THEN "Werewolves"
        ELSE "None"

ActiveMutant(rs, al, ph) == Survivors(rs, al, AllRoles)

\* Werewolf.active
Active(rs, al, ph) ==
    IF ph = "Day" THEN Survivors(rs, al, AllRoles)
    ELSE Survivors(rs, al, {"Werewolf", "Seer", "Doctor"})

Min(S) == CHOOSE x \in S : \A y \in S : x <= y

RECURSIVE SortedSeq(_)
\* iteration order of a Python set of small non-negative ints
SortedSeq(S) ==
    IF S = {} THEN <<>> ELSE <<Min(S)>> \o SortedSeq(S \ {Min(S)})

EmptyMap == [x \in {} |-> None]

Put(f, k, v) == [x \in (DOMAIN f) \cup {k} |-> IF x = k THEN v ELSE f[x]]

\* Counter(votes.values()).most_common(1)[0][0]: the most frequent value, the
\* first one met in insertion order (ascending voter) among equals
MostCommon(vs) ==
    LET count(t) == Cardinality({a \in DOMAIN vs : vs[a] = t})
        first(t) == Min({a \in DOMAIN vs : vs[a] = t})
        vals     == {vs[a] : a \in DOMAIN vs}
        best     == {t \in vals : \A u \in vals : count(u) <= count(t)}
    IN  CHOOSE t \in best : \A u \in best : first(t) <= first(u)

\* --------------------------------------------------------- state machines
ForumNextMutant ==
    {<<"Start", "Night">>, <<"Night", "Day">>, <<"Day", "Night">>, <<"End", "Night">>}

\* machine.py: next = start.to(night) | night.to(day) | day.to(night)
ForumNext == {<<"Start", "Night">>, <<"Night", "Day">>, <<"Day", "Night">>}

ForumFinishMutant == {<<"Start", "End">>, <<"Night", "End">>, <<"Day", "End">>}

\* machine.py: finish = night.to(end) | day.to(end)
ForumFinish == {<<"Night", "End">>, <<"Day", "End">>}

CliNextMutant == {<<"Night", "Day">>}

\* werewolf.py: next = night.to(day) | day.to(night)
CliNext == {<<"Night", "Day">>, <<"Day", "Night">>}

\* werewolf.py: finish = night.to(finished_state) | day.to(finished_state)
CliFinish == {<<"Night", "Finished">>, <<"Day", "Finished">>}

\* final=True states
Final == {"End", "Finished"}

\* an event sent to a machine in state s: the target state, or the error
Fire(table, s) ==
    IF \E t \in table : t[1] = s
    THEN (CHOOSE t \in table : t[1] = s)[2]
    ELSE TNA

VARIABLES
    which,           \* the program of this run
    state,           \* current_state of the machine
    last,            \* the latest next()/finish() call: op, state it was made in, result
    ncalls,          \* commands handled by handle_message / lines read
    visited,         \* history: states entered, first the initial state
    loop,            \* stdin_reader: "running" or "exited"
    roles, phase, day, alive, known_identity, voted,      \* the Werewolf game
    queue,           \* self._actions
    pc,              \* position of the forum machine's control flow
    active,          \* the set game.active() the round iterates over
    todo,            \* agents of the round not yet dispatched, ascending
    held,            \* the action a waiting dispatch has taken off the queue
    votes, pending_kill, protected,                        \* locals of _phase_*
    sent,            \* history: every action put through the action event
    observed,        \* history: every observation sent through the observe event
    returned,        \* history: every return of dispatch
    actives,         \* history: the active set of every round
    qstart,          \* history: ids in the queue when the round began
    out              \* the line stdin_reader has read last; the latest call of a
                     \* function on its own: inputs and result

game == <<roles, phase, day, alive, known_identity, voted>>
locals == <<active, todo, held, votes, pending_kill, protected>>
history == <<sent, observed, returned, actives, qstart>>
vars == <<which, state, last, ncalls, visited, loop, game, queue, pc, locals, history, out>>

\* the games in which the agents also select the index just past the last
\* agent, which is no agent of the game
WildGames == {FromTuple(<<"Werewolf", "Seer">>)}

\* the indices the agents of the game select
Targets ==
    (0 .. MaxTarget) \cup (IF roles \in WildGames THEN {Cardinality(DOMAIN roles)} ELSE {})

Call(op, from, result) == [op |-> op, from |-> from, result |-> result]

InitGame(f) ==
    /\ roles = FromTuple(f)
    /\ phase = "Start"
    /\ day = 1
    /\ alive = [i \in DOMAIN FromTuple(f) |-> TRUE]
    /\ known_identity = InitialKnown(FromTuple(f))
    /\ voted = <<>>

\* no function has been called on its own
NoCall == [fn |-> "none"]

\* the objects of a run right after construction
Begin ==
    /\ out = NoCall
    /\ state = IF which = "forum" THEN "Start" ELSE "Night"
    /\ last = Call("none", "none", "none")
    /\ ncalls = 0
    /\ visited = <<state>>
    /\ loop = IF which = "stdin" THEN "running" ELSE "off"
    /\ \E f \in Fixtures :
         /\ which # "forum" => f = <<"Werewolf", "Seer", "Doctor">>
         /\ InitGame(f)
    /\ queue = <<>>
    /\ pc = "idle"
    /\ active = {}
    /\ todo = <<>>
    /\ held = <<>>
    /\ votes = EmptyMap
    /\ pending_kill = None
    /\ protected = None
    /\ sent = <<>>
    /\ observed = <<>>
    /\ returned = <<>>
    /\ actives = <<>>
    /\ qstart = {}

Init ==
    /\ which \in {"forum", "direct", "stdin"}
    /\ Begin

\* ------------------------------------------------------------ forum machine
\* A next()/finish() call from outside, made while the machine is not inside
\* a transition (Start before the game, End after it).
ExtCall(op, table) ==
    /\ which = "forum"
    /\ pc = "idle"
    /\ LET r == Fire(table, state)
       IN  /\ last' = Call(op, state, IF r = TNA THEN TNA ELSE "ok")
           /\ IF r = TNA
              THEN UNCHANGED <<state, visited, pc>>
              ELSE /\ state' = r
                   /\ visited' = Append(visited, r)
                   /\ pc' = IF r \in Final THEN "idle" ELSE "enter"
    /\ UNCHANGED <<which, out, ncalls, loop, game, queue, locals, history>>

ExtNext == ExtCall("next", ForumNext)

ExtFinish == ExtCall("finish", ForumFinish)

\* on_enter_night / on_enter_day up to the first step of the round's loop:
\* the phase field is set and the generator takes game.active()
OnEnter ==
    /\ which = "forum"
    /\ pc = "enter"
    /\ phase' = state
    /\ active' = Active(roles, alive, state)
    /\ todo' = SortedSeq(active')
    /\ votes' = EmptyMap
    /\ pending_kill' = None
    /\ protected' = None
    /\ actives' = Append(actives, active')
    /\ qstart' = {queue[i].id : i \in DOMAIN queue}
    /\ pc' = IF active' = {} THEN "apply" ELSE "observe"
    /\ UNCHANGED <<which, out, state, last, ncalls, visited, loop, roles, day, alive,
                   known_identity, voted, queue, held, sent, observed, returned>>

ObservationAllRoles(agent) ==
    [agent |-> agent,
     day |-> day,
     phase |-> phase,
     alive |-> alive,
     known_role |-> [k \in DOMAIN roles |-> roles[k]],
     voted |-> voted]

\* Werewolf.observations: the observation built for `agent` when the generator
\* reaches it
ObservationFor(agent) ==
    [agent |-> agent,
     day |-> day,
     phase |-> phase,
     alive |-> alive,
     known_role |-> [k \in known_identity[agent] |-> roles[k]],
     voted |-> voted]

\* the generator yields the next (agent, observation) and dispatch triggers the
\* observe event; roles[known_agent] raises IndexError for an unknown index
Observe ==
    /\ which = "forum"
    /\ pc = "observe"
    /\ IF known_identity[Head(todo)] \subseteq DOMAIN roles
       THEN /\ observed' = Append(observed, ObservationFor(Head(todo)))
            /\ pc' = "trigger"
       ELSE /\ pc' = "crashed"
            /\ UNCHANGED observed
    /\ UNCHANGED <<which, out, state, last, ncalls, visited, loop, game, queue, locals,
                   sent, returned, actives, qstart>>

\* await self.observe.trigger(...) completes
ObserveReturn ==
    /\ which = "forum"
    /\ pc = "trigger"
    /\ pc' = "get"
    /\ UNCHANGED <<which, out, state, last, ncalls, visited, loop, game, queue, locals, history>>

\* action = await self._actions.get()
Get ==
    /\ which = "forum"
    /\ pc = "get"
    /\ queue # <<>>
    /\ held' = <<Head(queue)>>
    /\ queue' = Tail(queue)
    /\ pc' = "check"
    /\ UNCHANGED <<which, out, state, last, ncalls, visited, loop, game, active, todo, votes,
                   pending_kill, protected, history>>

MatchesAny(action, agent) == TRUE

MatchesLeq(action, agent) == action.selector <= agent

\* if action.selector == agent
Matches(action, agent) == action.selector = agent

\* _queue_action: await self._actions.put(action)
QueuePut(q, action) == Append(q, action)

RequeueDropped(q, action) == q

\* dispatch: await self._actions.put(action), back at the end of the queue
Requeue(q, action) == Append(q, action)

RecordSelector(vs, action) == Put(vs, action.selector, action.selector)

\* votes[action.selector] = action.selected
RecordVote(vs, action) == Put(vs, action.selector, action.selected)

\* not this agent's action: put back and loop
PutBack ==
    /\ which = "forum"
    /\ pc = "check"
    /\ ~Matches(held[1], Head(todo))
    /\ queue' = Requeue(queue, held[1])
    /\ held' = <<>>
    /\ pc' = "get"
    /\ UNCHANGED <<which, out, state, last, ncalls, visited, loop, game, active, todo, votes,
                   pending_kill, protected, history>>

\* dispatch returns the action; the body of the round's loop records it
DispatchReturn ==
    /\ which = "forum"
    /\ pc = "check"
    /\ Matches(held[1], Head(todo))
    /\ LET action == held[1]
           role   == roles[action.selector]
       IN  /\ returned' = Append(returned, [agent |-> Head(todo), action |-> action,
                                              round |-> Len(actives)])
           /\ votes' = RecordVote(votes, action)
           /\ IF state = "Night"
              THEN /\ pending_kill' =
                        IF role = "Werewolf" THEN action.selected ELSE pending_kill
                   /\ known_identity' =
                        IF role = "Seer"
                        THEN [known_identity EXCEPT
                                ![action.selector] = @ \cup {action.selected}]
                        ELSE known_identity
                   /\ protected' =
                        IF role = "Doctor" THEN action.selected ELSE protected
              ELSE UNCHANGED <<pending_kill, known_identity, protected>>
    /\ held' = <<>>
    /\ todo' = Tail(todo)
    /\ pc' = IF Tail(todo) = <<>> THEN "apply" ELSE "observe"
    /\ UNCHANGED <<which, out, state, last, ncalls, visited, loop, roles, phase, day, alive,
                   voted, queue, active, sent, observed, actives, qstart>>

\* _phase_day: if votes: victim, _ = Counter(votes.values()).most_common(1)[0]
DayVictim(vs) == IF DOMAIN vs # {} THEN MostCommon(vs) ELSE None

KillToggle(al, agent) == [al EXCEPT ![agent] = ~@]

\* Werewolf.kill on an index of the list: self.alive[agent] = False
Kill(al, agent) == [al EXCEPT ![agent] = FALSE]

\* the agent the round kills, or None
Victim ==
    IF state = "Night"
    THEN IF pending_kill # None /\ pending_kill # protected THEN pending_kill ELSE None
    ELSE DayVictim(votes)

ChooseNext(w) == "next"

\* if self.game.winner is not None: await self.finish() else: await self.next()
ChooseEvent(w) == IF w # "None" THEN "finish" ELSE "next"

VotedReplace(vd, vs) == IF vd = <<>> THEN <<vs>> ELSE [vd EXCEPT ![Len(vd)] = vs]

\* self.game.voted.append(votes)
VotedAppend(vd, vs) == Append(vd, vs)

\* the rest of _phase_night / _phase_day once every dispatch has returned:
\* append the votes, kill, count the day, then finish() or next()
Apply ==
    /\ which = "forum"
    /\ pc = "apply"
    /\ voted' = VotedAppend(voted, votes)
    /\ IF Victim # None /\ Victim \notin DOMAIN alive
       THEN \* Werewolf.kill: IndexError
            /\ pc' = "crashed"
            /\ UNCHANGED <<alive, day, state, visited, last>>
       ELSE LET al == IF Victim = None THEN alive ELSE Kill(alive, Victim)
                op == ChooseEvent(Winner(roles, al))
                r  == Fire(IF op = "finish" THEN ForumFinish ELSE ForumNext, state)
            IN  /\ alive' = al
                /\ day' = IF state = "Day" THEN day + 1 ELSE day
                /\ last' = Call(op, state, IF r = TNA THEN TNA ELSE "ok")
                /\ IF r = TNA
                   THEN /\ pc' = "crashed"
                        /\ UNCHANGED <<state, visited>>
                   ELSE /\ state' = r
                        /\ visited' = Append(visited, r)
                        /\ pc' = IF r \in Final THEN "idle" ELSE "enter"
    /\ UNCHANGED <<which, out, ncalls, loop, roles, phase, known_identity, queue, locals, history>>

\* The machine's coroutine has given control back to the event loop while a
\* round is in progress: inside observe.trigger, or in get() on an empty queue.
\* (get() on a non-empty queue and put() on an unbounded queue do not suspend,
\* so nothing else runs between a get() and the put() or return after it.)
\* Agents act while the game runs: from the first observation to the End.
Yielded == pc = "trigger" \/ (pc = "get" /\ queue = <<>>)

InRound == pc \in {"trigger", "get"}

\* an agent triggers the action event: _queue_action puts it on the queue
SendAction(a, t) ==
    /\ which = "forum"
    /\ Yielded
    /\ Len(sent) < MaxSends
    /\ queue' = QueuePut(queue, [id |-> Len(sent) + 1, selector |-> a, selected |-> t])
    /\ sent' = Append(sent, [selector |-> a, selected |-> t,
                             round |-> IF InRound THEN Len(actives) ELSE 0,
                             late |-> InRound /\ a \in DOMAIN votes,
                             inactive |-> InRound /\ a \notin active])
    /\ UNCHANGED <<which, out, state, last, ncalls, visited, loop, game, pc, locals,
                   observed, returned, actives, qstart>>

Send == \E a \in DOMAIN roles, t \in Targets : SendAction(a, t)

\* ------------------------------------------------- Night/Day/Finished machine
Commands == {"next", "finish", "quit"}

\* WerewolfMachine.handle_message(GameMessage(command=cmd))
HandleMessage(cmd) ==
    /\ ncalls' = ncalls + 1
    /\ IF cmd = "quit"
       THEN UNCHANGED <<state, visited, last>>
       ELSE LET r == Fire(IF cmd = "next" THEN CliNext ELSE CliFinish, state)
            IN  /\ last' = Call(cmd, state, IF r = TNA THEN TNA ELSE "ok")
                /\ IF r = TNA
                   THEN UNCHANGED <<state, visited>>
                   ELSE /\ state' = r
                        /\ visited' = Append(visited, r)

\* a caller (the test) hands a message to handle_message
Direct ==
    /\ which = "direct"
    /\ ncalls < MaxCalls
    /\ \E cmd \in Commands : HandleMessage(cmd)
    /\ UNCHANGED <<which, out, loop, game, queue, pc, locals, history>>

Lines == {"next", "n", " NEXT ", "finish", "f", "quit", "q", "", "help"}

\* line.strip().lower()
Normalize(line) == IF line = " NEXT " THEN "next" ELSE line

ParseMutant(line) ==
    LET cmd == Normalize(line)
    IN  IF cmd \in {"next", "n"} THEN "next"
        ELSE IF cmd \in {"finish", "f"} THEN "finish"
        ELSE "quit"

\* the command stdin_reader makes of a line, or "unknown"
Parse(line) ==
    LET cmd == Normalize(line)
    IN  IF cmd \in {"next", "n"} THEN "next"
        ELSE IF cmd \in {"finish", "f"} THEN "finish"
        ELSE IF cmd \in {"quit", "q"} THEN "quit"
        ELSE "unknown"

\* one turn of stdin_reader's loop (EOF and Ctrl+C read as "quit")
StdinLine ==
    /\ which = "stdin"
    /\ loop = "running"
    /\ ncalls < MaxCalls
    /\ \E line \in Lines :
         LET cmd == Parse(line)
         IN  /\ IF cmd = "unknown"
                THEN /\ ncalls' = ncalls + 1
                     /\ UNCHANGED <<state, visited, last>>
                ELSE HandleMessage(cmd)
             /\ loop' = IF cmd = "quit" \/ state' \in Final THEN "exited" ELSE "running"
             /\ out' = [fn |-> "input", line |-> line]
    /\ UNCHANGED <<which, game, queue, pc, locals, history>>

Next ==
    \/ ExtNext
    \/ ExtFinish
    \/ OnEnter
    \/ Observe
    \/ ObserveReturn
    \/ Get
    \/ PutBack
    \/ DispatchReturn
    \/ Apply
    \/ Send
    \/ Direct
    \/ StdinLine

Spec == Init /\ [][Next]_vars

\* ------------------------------------------ the same program, agents that
\* follow the protocol: an active agent of the round in progress sends one
\* action in the round, and nobody else sends
Respond(a) ==
    /\ a \in active
    /\ \A i \in DOMAIN sent : sent[i].round = Len(actives) => sent[i].selector # a
    /\ \E t \in Targets : SendAction(a, t)

AgentIds == UNION {DOMAIN FromTuple(f) : f \in Fixtures}

\* the steps of the machine's own coroutine
Machine ==
    \/ OnEnter
    \/ Observe
    \/ ObserveReturn
    \/ Get
    \/ PutBack
    \/ DispatchReturn
    \/ Apply

FairNext ==
    \/ ExtNext
    \/ ExtFinish
    \/ Machine
    \/ \E a \in AgentIds : Respond(a)
    \/ Direct
    \/ StdinLine

\* the event loop runs the machine's coroutine whenever it can go on, and
\* every agent that can hand in its action does so
FairSpec ==
    /\ Init
    /\ [][FairNext]_vars
    /\ WF_vars(Machine)
    /\ \A a \in AgentIds : WF_vars(Respond(a))

\* ------------------------------------------- functions called on their own
\* state.py, WerewolfState.winner: the roles of the living players counted
StateWinner(rs, alive_players) ==
    LET werewolves     == Cardinality({p \in alive_players : rs[p] = "Werewolf"})
        non_werewolves == Cardinality(alive_players) - werewolves
    IN  IF werewolves = 0 THEN "villagers"
        ELSE IF werewolves >= non_werewolves THEN "werewolves"
        ELSE "none"

\* games of up to MaxAgents agents, roles and alive flags of any kind
Agents(n) == 0 .. (n - 1)

\* both winner properties read on the same roles and alive flags
WinnerCall ==
    /\ which = "pure"
    /\ out = NoCall
    /\ \E n \in 0 .. MaxAgents :
         \E rs \in [Agents(n) -> AllRoles], al \in [Agents(n) -> BOOLEAN] :
            out' = [fn |-> "winner", roles |-> rs, alive |-> al,
                    werewolf |-> Winner(rs, al),
                    state |-> StateWinner(rs, {p \in Agents(n) : al[p]})]
    /\ UNCHANGED <<which, state, last, ncalls, visited, loop, game, queue, pc, locals,
                   history>>

\* the tally of a Day round on a vote map of any voters and targets
TallyCall ==
    /\ which = "pure"
    /\ out = NoCall
    /\ \E voters \in SUBSET Agents(MaxAgents) :
         \E vs \in [voters -> Agents(MaxAgents)] :
            out' = [fn |-> "tally", votes |-> vs, victim |-> DayVictim(vs)]
    /\ UNCHANGED <<which, state, last, ncalls, visited, loop, game, queue, pc, locals,
                   history>>

\* ------------------------------------------------------------ the codec
\* A message is a record: cls is its class, the other fields are its pydantic
\* fields (lists and tuples are sequences, dicts are functions, sets are
\* sets).  A JSON object is a function of strings, a JSON array a sequence,
\* null is None.

\* the classes defined with Message as their base, by __qualname__
Shapes == {"Observation", "Action", "Werewolf"}

\* Codec(): Message.__init_subclass__ has added every class under its name
Registry == [q \in Shapes |-> q]

\* the agent indices in the messages given to the codec
Idx == Agents(MaxAgents)

\* the decimal numeral of a key of a JSON object, and the int it stands for
\* (Python's int has no width; 0..9 covers every key of the model)
JKey(k) == ToString(k)
IntKeys == {JKey(k) : k \in 0 .. 9}
IntOf(s) == CHOOSE k \in 0 .. 9 : JKey(k) = s

\* model_dump_json of a dict[AgentIndex, X]: the keys become strings
DumpDict(f) == [s \in {JKey(k) : k \in DOMAIN f} |-> f[IntOf(s)]]

DumpVotesNoNone(f) ==
    [s \in {JKey(k) : k \in {x \in DOMAIN f : f[x] # None}} |-> f[IntOf(s)]]

\* model_dump_json of a dict[AgentIndex, Optional[AgentIndex]]: exclude_none
\* drops fields of models, not entries of dicts
DumpVotes(f) == DumpDict(f)

DumpVoted(vd) == [i \in DOMAIN vd |-> DumpVotes(vd[i])]

\* model_dump_json of a dict[AgentIndex, set[AgentIndex]]: sets become arrays
DumpKnown(f) == [s \in {JKey(k) : k \in DOMAIN f} |-> SortedSeq(f[IntOf(s)])]

\* Codec.encode: message.model_dump_json(exclude_none=True), the computed
\* fields `type` and (Werewolf) `winner` included, None fields left out
Encode(m) ==
    CASE m.cls = "Action" ->
           [type |-> "Action", selector |-> m.selector, selected |-> m.selected]
      [] m.cls = "Observation" ->
           [type |-> "Observation", day |-> m.day, phase |-> m.phase,
            alive |-> m.alive, known_role |-> DumpDict(m.known_role),
            voted |-> DumpVoted(m.voted)]
      [] m.cls = "Werewolf" ->
           LET fields == [type |-> "Werewolf", day |-> m.day, phase |-> m.phase,
                          roles |-> m.roles, alive |-> m.alive,
                          known_identity |-> DumpKnown(m.known_identity),
                          voted |-> DumpVoted(m.voted)]
               winner == Winner(m.roles, m.alive)
           IN  IF winner = "None" THEN fields ELSE fields @@ [winner |-> winner]

Raise(e) == [error |-> e]

\* validation of a JSON object as dict[AgentIndex, X]: the keys are parsed
LoadDict(j) == [k \in {IntOf(s) : s \in DOMAIN j} |-> j[JKey(k)]]

LoadVoted(jv) == [i \in DOMAIN jv |-> LoadDict(jv[i])]

\* validation as dict[AgentIndex, set[AgentIndex]]: arrays become sets
LoadKnown(j) ==
    [k \in {IntOf(s) : s \in DOMAIN j} |->
        {j[JKey(k)][i] : i \in DOMAIN j[JKey(k)]}]

\* cls.model_validate_json(data): required fields must be there, a field with
\* a default may be missing, keys that are no field are ignored
Validate(cls, d) ==
    CASE cls = "Action" ->
           IF {"selector", "selected"} \subseteq DOMAIN d
           THEN IF d.selector >= 0 /\ d.selected >= 0
                THEN [cls |-> "Action", selector |-> d.selector, selected |-> d.selected]
                ELSE Raise("ValidationError")
           ELSE Raise("ValidationError")
      [] cls = "Observation" ->
           IF {"day", "phase", "alive", "known_role", "voted"} \subseteq DOMAIN d
           THEN IF d.day > 0 /\ DOMAIN d.known_role \subseteq IntKeys
                THEN [cls |-> "Observation", day |-> d.day, phase |-> d.phase,
                      alive |-> d.alive, known_role |-> LoadDict(d.known_role),
                      voted |-> LoadVoted(d.voted)]
                ELSE Raise("ValidationError")
           ELSE Raise("ValidationError")
      [] cls = "Werewolf" ->
           IF {"roles", "alive", "known_identity"} \subseteq DOMAIN d
           THEN LET m == [cls |-> "Werewolf",
                          day |-> IF "day" \in DOMAIN d THEN d.day ELSE 1,
                          phase |-> IF "phase" \in DOMAIN d THEN d.phase ELSE "Start",
                          roles |-> d.roles, alive |-> d.alive,
                          known_identity |-> LoadKnown(d.known_identity),
                          voted |-> IF "voted" \in DOMAIN d
                                    THEN LoadVoted(d.voted) ELSE <<>>]
                IN  \* agent_quantity
                    IF /\ m.day > 0
                       /\ Len(m.roles) = Len(m.alive)
                       /\ Len(m.roles) = Cardinality(DOMAIN m.known_identity)
                    THEN m
                    ELSE Raise("ValidationError")
           ELSE Raise("ValidationError")

DecodeLenient(reg, data) ==
    [registry |-> reg,
     result |-> IF "type" \notin DOMAIN data THEN Raise("KeyError")
                ELSE IF data.type \notin DOMAIN reg THEN Validate("Action", data)
                ELSE Validate(reg[data.type], data)]

\* Codec.decode on a payload that json.loads accepts: the result (a message
\* or the exception raised) and the registry after the call
Decode(reg, data) ==
    [registry |-> reg,
     result |-> IF "type" \notin DOMAIN data THEN Raise("KeyError")
                ELSE IF data.type \notin DOMAIN reg THEN Raise("KeyError")
                ELSE Validate(reg[data.type], data)]

\* Hashable._signature: dicts as tuples of items sorted by key, sets as sorted
\* tuples, lists as tuples
SigDict(f) ==
    LET ks == SortedSeq(DOMAIN f) IN [i \in DOMAIN ks |-> <<ks[i], f[ks[i]]>>]

SigKnown(f) ==
    LET ks == SortedSeq(DOMAIN f) IN [i \in DOMAIN ks |-> <<ks[i], SortedSeq(f[ks[i]])>>]

SigVoted(vd) == [i \in DOMAIN vd |-> SigDict(vd[i])]

Signature(m) ==
    CASE m.cls = "Action" -> [selector |-> m.selector, selected |-> m.selected]
      [] m.cls = "Observation" ->
           [day |-> m.day, phase |-> m.phase, alive |-> m.alive,
            known_role |-> SigDict(m.known_role), voted |-> SigVoted(m.voted)]
      [] m.cls = "Werewolf" ->
           [day |-> m.day, phase |-> m.phase, roles |-> m.roles, alive |-> m.alive,
            known_identity |-> SigKnown(m.known_identity), voted |-> SigVoted(m.voted)]

\* Hashable.__eq__
Eq(a, b) == Signature(a) = Signature(b)

\* valid instances of the three classes, for games of MaxAgents agents
VoteMaps == UNION {[vs -> {0, None}] : vs \in SUBSET Idx}

VotedLists == {<<>>} \cup {<<v>> : v \in VoteMaps}

Flags == [1 .. MaxAgents -> BOOLEAN]

Actions == [cls : {"Action"}, selector : Idx, selected : Idx]

Observations ==
    [cls : {"Observation"}, day : {1}, phase : {"Night", "Day"},
     alive : {[i \in 1 .. MaxAgents |-> i > 1 \/ b] : b \in BOOLEAN},
     known_role : UNION {[ks -> {"Werewolf", "Seer"}] : ks \in SUBSET Idx},
     voted : VotedLists]

Werewolves ==
    [cls : {"Werewolf"}, day : {1, 2}, phase : {"Start"},
     roles : [1 .. MaxAgents -> {"Werewolf", "Villager"}],
     alive : Flags,
     known_identity : {[i \in Idx |-> IF i = 0 THEN s \cup {0} ELSE {i}] :
                          s \in SUBSET (Idx \ {0})},
     voted : {<<>>, <<[a \in {0} |-> None]>>}]

Messages == Actions \cup Observations \cup Werewolves

\* message.encode() and Message.decode() of the bytes it gave
RoundTripCall ==
    /\ which = "pure"
    /\ out = NoCall
    /\ \E m \in Messages :
         LET data == Encode(m)
         IN  out' = [fn |-> "roundtrip", message |-> m, payload |-> data,
                     decoded |-> Decode(Registry, data).result]
    /\ UNCHANGED <<which, state, last, ncalls, visited, loop, game, queue, pc, locals,
                   history>>

\* type tags of payloads: the names of the classes and names of no class
TypeTags == Shapes \cup {"Vote", "action"}

\* payloads json.loads accepts: encoded messages, under any tag or none
Untagged(data) == [k \in DOMAIN data \ {"type"} |-> data[k]]

Payloads ==
    LET ms == Actions
                \cup [cls : {"Observation"}, day : {1}, phase : {"Night", "Day"},
                      alive : Flags, known_role : {EmptyMap}, voted : {<<>>}]
                \cup [cls : {"Werewolf"}, day : {1}, phase : {"Start"},
                      roles : [1 .. MaxAgents -> {"Werewolf", "Villager"}],
                      alive : Flags, known_identity : {[i \in Idx |-> {i}]},
                      voted : {<<>>}]
    IN  {[Encode(m) EXCEPT !.type = tag] : m \in ms, tag \in TypeTags}
          \cup {Untagged(Encode(m)) : m \in ms}

\* registries: the classes defined so far
Registries == {[q \in qs |-> q] : qs \in SUBSET Shapes}

\* Message.decode(data)
DecodeCall ==
    /\ which = "pure"
    /\ out = NoCall
    /\ \E reg \in Registries, data \in Payloads :
         LET r == Decode(reg, data)
         IN  out' = [fn |-> "decode", payload |-> data, before |-> reg,
                     registry |-> r.registry, result |-> r.result]
    /\ UNCHANGED <<which, state, last, ncalls, visited, loop, game, queue, pc, locals,
                   history>>

PureInit ==
    /\ which = "pure"
    /\ Begin

PureNext ==
    \/ WinnerCall
    \/ TallyCall
    \/ RoundTripCall
    \/ DecodeCall

PureSpec == PureInit /\ [][PureNext]_vars

\* ------------------------------------------------------------------ claims
Max(S) == CHOOSE x \in S : \A y \in S : y <= x

\* the terminal state of the machine of this run
Terminal == IF which = "forum" THEN "End" ELSE "Finished"

\* a step taken in a terminal state
TerminalStep ==
    state \in Final =>
        /\ state' = state
        /\ (last' # last => (last'.from = state /\ last'.result = TNA))
        /\ UNCHANGED <<game, queue, pc, locals, observed, returned, visited>>

\* C1 (terminal lock): once a machine is in End / Finished, every step leaves
\* it there; a next() or finish() made there ends in TransitionNotAllowed; and
\* no observation is sent, no action is taken off the queue or matched, and
\* the game state does not change.
TerminalLock == [][TerminalStep]_vars

\* a game that ended after a round, with an action left on the queue, and a
\* next() tried in End
TerminalLockWitness ==
    /\ state = "End"
    /\ last = Call("next", "End", TNA)
    /\ Len(voted) > 0
    /\ queue # <<>>

\* a step in which next() is called
NextStep ==
    (last' # last /\ last'.op = "next") =>
        /\ last'.from = state
        /\ (last'.result = "ok") <=> (state \in {"Start", "Night", "Day"})
        /\ (last'.result = "ok") =>
              (state' = (IF state = "Night" THEN "Day" ELSE "Night"))
        /\ (last'.result # "ok") => (last'.result = TNA /\ state' = state)

\* the states entered so far: Start first or never, a terminal state last or
\* never, Night and Day in turn between them
PhasesAlternate ==
    LET o == IF visited[1] = "Start" THEN 1 ELSE 0
    IN  \A i \in 1 .. Len(visited) :
          /\ (visited[i] = "Start") => (i = 1)
          /\ (visited[i] \in Final) => (i = Len(visited))
          /\ (i > o /\ visited[i] \notin Final) =>
                (visited[i] = (IF (i - o) % 2 = 1 THEN "Night" ELSE "Day"))

\* C2 (next): a next() call succeeds exactly in Start, Night and Day, moving
\* Start->Night, Night->Day, Day->Night, and changes nothing elsewhere; the
\* states entered after the initial one are never Start, and the non-terminal
\* ones alternate Night, Day, Night, ... beginning with Night.
NextAlternates == [][NextStep]_vars /\ []PhasesAlternate

\* the game machine has gone Start, Night, Day and back to Night
NextAlternatesWitness ==
    /\ which = "forum"
    /\ Len(visited) >= 4
    /\ visited[4] = "Night"
    /\ last = Call("next", "Day", "ok")

\* a step in which finish() is called
FinishStep ==
    (last' # last /\ last'.op = "finish") =>
        /\ last'.from = state
        /\ IF state \in {"Night", "Day"}
           THEN last'.result = "ok" /\ state' = Terminal
           ELSE last'.result = TNA /\ state' = state

\* C3 (finish): a finish() call made in Night or Day succeeds and moves the
\* machine to its terminal state; made in Start or in the terminal state it
\* ends in TransitionNotAllowed and the state stays as it was.
FinishContract == [][FinishStep]_vars

\* next, next, finish as in the test, then a second finish that is rejected
FinishContractWitness ==
    /\ which = "direct"
    /\ visited = <<"Night", "Day", "Night", "Finished">>
    /\ last = Call("finish", "Finished", TNA)

\* C4 (dispatch returns the agent's own action): every return of dispatch
\* hands back an action whose selector is the agent the call was made for,
\* and the observation for that agent was sent before.
DispatchSound ==
    \A i \in 1 .. Len(returned) :
        /\ returned[i].action.selector = returned[i].agent
        /\ i <= Len(observed)
        /\ observed[i].agent = returned[i].agent

\* dispatch returned an action although an older action of another agent was
\* ahead of it and is still on the queue
DispatchSoundWitness ==
    /\ returned # <<>>
    /\ \E k \in DOMAIN queue :
         /\ queue[k].id < returned[Len(returned)].action.id
         /\ queue[k].selector # returned[Len(returned)].agent

\* where action number id is
InQueue(id) == {k \in DOMAIN queue : queue[k].id = id}
Held(id) == {k \in DOMAIN held : held[k].id = id}
Returned(id) == {k \in DOMAIN returned : returned[k].action.id = id}
Places(id) == InQueue(id) \cup Held(id) \cup Returned(id)

\* C5 (no action lost or claimed twice): every action ever put through the
\* action event is, unchanged, in exactly one place: once on the queue, or
\* held by the waiting dispatch, or returned by exactly one dispatch call.
ActionsConserved ==
    \A id \in 1 .. Len(sent) :
        /\ Cardinality(InQueue(id)) + Cardinality(Held(id)) + Cardinality(Returned(id)) = 1
        /\ \A k \in InQueue(id) :
             queue[k].selector = sent[id].selector /\ queue[k].selected = sent[id].selected
        /\ \A k \in Held(id) :
             held[k].selector = sent[id].selector /\ held[k].selected = sent[id].selected
        /\ \A k \in Returned(id) :
             /\ returned[k].action.selector = sent[id].selector
             /\ returned[k].action.selected = sent[id].selected

\* the three places at once: one action returned, one put back on the queue
\* before, one of another agent held by the waiting dispatch
ActionsConservedWitness ==
    /\ pc = "check"
    /\ held[1].selector # Head(todo)
    /\ returned # <<>>
    /\ \E k \in DOMAIN queue : queue[k].id < returned[Len(returned)].action.id

\* the actions a round can match: those on the queue when it began and those
\* sent during it
Pool == qstart \cup {i \in DOMAIN sent : sent[i].round = Len(actives)}

\* each active agent has exactly one action in the pool, and nobody else has
OneActionEach ==
    /\ \A a \in active : Cardinality({i \in Pool : sent[i].selector = a}) = 1
    /\ \A i \in Pool : sent[i].selector \in active

\* the action of agent a in the pool
ActionOf(a) == sent[CHOOSE i \in Pool : sent[i].selector = a]

\* what the round collects when the actions arrive in ascending agent order
CanonVotes == [a \in active |-> ActionOf(a).selected]
CanonKill ==
    LET ws == {a \in active : roles[a] = "Werewolf"}
    IN  IF state = "Night" /\ ws # {} THEN ActionOf(Max(ws)).selected ELSE None
CanonProtected ==
    LET ds == {a \in active : roles[a] = "Doctor"}
    IN  IF state = "Night" /\ ds # {} THEN ActionOf(Max(ds)).selected ELSE None

\* C6 (arrival-order independence): when each active agent of a round sends
\* exactly one action, then whatever the order of arrival the round collects
\* the vote map (and the kill and protection decided from it) that it
\* collects when the actions arrive in ascending agent order.
ArrivalOrderIndependent ==
    (pc = "apply" /\ OneActionEach) =>
        /\ votes = CanonVotes
        /\ pending_kill = CanonKill
        /\ protected = CanonProtected

\* a round of three agents collected from actions that arrived in descending
\* agent order
ArrivalOrderWitness ==
    /\ pc = "apply"
    /\ OneActionEach
    /\ Cardinality(active) = 3
    /\ \A i, j \in Pool : i < j => sent[i].selector > sent[j].selector

\* C8 (K active agents, K matched actions): the vote map of every completed
\* round has exactly the round's active set as its keys, and the round took
\* exactly one action per active agent off the queue for good.
RoundComplete ==
    /\ pc = "apply" => DOMAIN votes = active
    /\ \A r \in 1 .. Len(voted) :
         /\ DOMAIN voted[r] = actives[r]
         /\ Cardinality({k \in DOMAIN returned : returned[k].round = r})
              = Cardinality(actives[r])

\* a completed round of three agents, with actions left on the queue
RoundCompleteWitness ==
    /\ voted # <<>>
    /\ Cardinality(actives[1]) = 3
    /\ queue # <<>>

\* a dispatch call has sent its observation and has not returned
Waiting == pc \in {"trigger", "get", "check"}

\* C7 (eventual delivery): with agents that send one action per round and
\* answer whenever they can, every dispatch call returns (unless the run's
\* MaxSends actions are used up), also when an action of another agent is on
\* the queue before the awaited one arrives.
DispatchReturns == Waiting ~> (~Waiting \/ Len(sent) = MaxSends)

\* C9 (no double count): an action sent by an agent whose action of the round
\* in progress is already matched is never returned by a dispatch call.
NoDoubleCount ==
    \A k \in DOMAIN returned : ~sent[returned[k].action.id].late

\* C10 (inactive senders): an action sent by an agent outside the active set
\* of the round in progress is never returned by a dispatch call, in that
\* round or a later one.
InactiveRejected ==
    \A k \in DOMAIN returned : ~sent[returned[k].action.id].inactive

\* the positions of a round from its first dispatch to its last match
Dispatching == {"observe", "trigger", "get", "check"}

\* a step of a round after which a dispatch of the round is still to come
\* or to return
MidRoundStep ==
    (pc \in Dispatching /\ pc' \in Dispatching) =>
        UNCHANGED <<alive, known_identity, voted, day>>

\* C11 (no partial-round effects): from the first dispatch of a round until
\* the action of its last active agent is matched, the alive flags, the known
\* identities, the vote history and the day counter stay as they were; the
\* seer's reveal too is applied only after the last match.
NoPartialEffects == [][MidRoundStep]_vars

\* living werewolves and living others of the roles and flags last given
LivingWolves == {i \in DOMAIN out.roles : out.alive[i] /\ out.roles[i] = "Werewolf"}
LivingOthers == {i \in DOMAIN out.roles : out.alive[i] /\ out.roles[i] # "Werewolf"}

VotesFor(t) == Cardinality({a \in DOMAIN out.votes : out.votes[a] = t})

VoteTargets == {out.votes[a] : a \in DOMAIN out.votes}

\* C13 (Day tally): the tally eliminates an agent only if it got strictly
\* more votes than every other target; when two or more targets share the
\* highest count nobody is eliminated.
StrictPlurality ==
    out.fn = "tally" =>
        /\ out.victim # None =>
             \A t \in VoteTargets \ {out.victim} : VotesFor(out.victim) > VotesFor(t)
        /\ (\E t, u \in VoteTargets :
               /\ t # u
               /\ VotesFor(t) = VotesFor(u)
               /\ \A x \in VoteTargets : VotesFor(x) <= VotesFor(t))
             => out.victim = None

\* the agents a step changes from alive to dead
Dying == {a \in DOMAIN alive : alive[a] /\ ~alive'[a]}

\* the step that applies the effects of a Night round
NightKillStep ==
    (pc = "apply" /\ state = "Night") =>
        /\ Cardinality(Dying) <= 1
        /\ \A a \in Dying :
             /\ roles[a] # "Werewolf"
             /\ \A d \in active : roles[d] = "Doctor" => votes[d] # a

\* C14 (Night kill): the effects of a Night round change at most one agent
\* from alive to dead; the agent the living doctor selected in the round is
\* not the one killed; the agent killed is never a werewolf.
NightKill == [][NightKillStep]_vars

\* rounds completed: the Night and Day states the machine has left
RoundsCompleted ==
    Cardinality({k \in 1 .. (Len(visited) - 1) : visited[k] \in {"Night", "Day"}})

VoteHistoryStep ==
    /\ SubSeq(voted', 1, Len(voted)) = voted
    /\ Cardinality(Dying) <= 1
    /\ IF pc = "apply" /\ pc' # "crashed"
       THEN voted' = voted \o <<votes>>
       ELSE pc # "apply" => (voted' = voted /\ Dying = {})

\* C15 (vote history): every completed Night or Day round appends exactly one
\* vote map and kills at most one agent; the vote history is as long as the
\* number of rounds completed, and its earlier entries never change.
VoteHistoryAppendOnly ==
    /\ [][VoteHistoryStep]_vars
    /\ []((which = "forum" /\ pc # "crashed") => Len(voted) = RoundsCompleted)

\* two rounds completed, the first of which killed an agent
VoteHistoryWitness ==
    /\ which = "forum"
    /\ Len(voted) = 2
    /\ RoundsCompleted = 2
    /\ \E a \in DOMAIN alive : ~alive[a]
    /\ voted[1] # EmptyMap

\* the observations dispatched in the round in progress: an observation
\* carries the vote history of the rounds completed before it
RoundObservations == {i \in DOMAIN observed : Len(observed[i].voted) = Len(voted)}

NightRoles == {"Werewolf", "Seer", "Doctor"}

\* C16 (active-set rule): a Night round dispatches observations to exactly
\* the agents alive at the start of the round whose role is Werewolf, Seer or
\* Doctor, a Day round to exactly the agents alive at its start, each once;
\* no observation is ever dispatched to a dead agent.
ActiveSetRule ==
    /\ \A i \in DOMAIN observed :
         /\ observed[i].alive[observed[i].agent]
         /\ observed[i].phase = "Night" => roles[observed[i].agent] \in NightRoles
    /\ pc = "apply" =>
         /\ {observed[i].agent : i \in RoundObservations}
              = {a \in DOMAIN roles : alive[a] /\ (state = "Day" \/ roles[a] \in NightRoles)}
         /\ \A i, j \in RoundObservations :
              observed[i].agent = observed[j].agent => i = j
         /\ \A i \in RoundObservations : observed[i].phase = state

\* a Day round that has observed every living agent and not the dead one,
\* after a Night round that left the villagers out
ActiveSetWitness ==
    /\ pc = "apply"
    /\ state = "Day"
    /\ \E a \in DOMAIN alive : ~alive[a]
    /\ Cardinality(RoundObservations) = 3
    /\ \E a \in DOMAIN roles : roles[a] = "Villager" /\ a \notin actives[1]

\* a winner is decided on the alive flags al: no living werewolf, or at
\* least as many living werewolves as living others
Decided(al) ==
    LET w == Cardinality({a \in DOMAIN roles : al[a] /\ roles[a] = "Werewolf"})
        v == Cardinality({a \in DOMAIN roles : al[a] /\ roles[a] # "Werewolf"})
    IN  w = 0 \/ w >= v

\* the step that applies the effects of a round and leaves the phase
ContinueStep ==
    (pc = "apply" /\ pc' # "crashed") =>
        /\ state' = "End" <=> Decided(alive')
        /\ ~Decided(alive') => state' = (IF state = "Night" THEN "Day" ELSE "Night")

\* C17 (continue or terminate): once the effects of a round are applied the
\* machine goes to End exactly when a winner is decided at that moment, and
\* to the other phase otherwise; whenever the machine is in End a winner is
\* decided, and End is never entered without a completed round.
ContinueOrTerminate ==
    /\ [][ContinueStep]_vars
    /\ [](state = "End" => (Decided(alive) /\ RoundsCompleted >= 1 /\ voted # <<>>))

\* a game ended by the effects of its first Night round
ContinueWitness ==
    /\ state = "End"
    /\ visited = <<"Start", "Night", "End">>
    /\ Len(voted) = 1
    /\ last = Call("finish", "Night", "ok")
    /\ \E a \in DOMAIN alive : ~alive[a]

\* one turn of the interactive loop, by the line it has read
DriverStep ==
    (which = "stdin" /\ ncalls' # ncalls) =>
        /\ out'.line \in {"quit", "q"} =>
             (state' = state /\ visited' = visited /\ loop' = "exited")
        /\ out'.line \in {"", "help"} =>
             (state' = state /\ visited' = visited /\ loop' = "running")
        /\ out'.line \in {"next", "n", " NEXT "} =>
             /\ state' = (IF state = "Night" THEN "Day" ELSE "Night")
             /\ loop' = "running"
        /\ out'.line \in {"finish", "f"} =>
             /\ state' = "Finished"
             /\ loop' = "exited"

\* C18 (interactive driver): quit and every unrecognized line leave the
\* machine's state unchanged; quit ends the loop and an unrecognized line does
\* not; next and finish fire exactly the transition of their name.
DriverFrame == [][DriverStep]_vars

\* the loop left by quit in Day, after a next and an unrecognized line
DriverWitness ==
    /\ which = "stdin"
    /\ loop = "exited"
    /\ out = [fn |-> "input", line |-> "q"]
    /\ ncalls = 3
    /\ visited = <<"Night", "Day">>
    /\ state = "Day"

\* C19 (codec round trip): for every valid Observation, Action and Werewolf
\* m, decode(encode(m)) is a message of m's class equal to m, also when
\* encode has left a None field out of the payload.
RoundTrip ==
    out.fn = "roundtrip" =>
        /\ "cls" \in DOMAIN out.decoded
        /\ out.decoded.cls = out.message.cls
        /\ Eq(out.decoded, out.message)
        /\ out.decoded = out.message

\* a game with no winner yet, so that `winner` is left out of the payload,
\* with a vote of None in its history and an identity learned
RoundTripWitness ==
    /\ out.fn = "roundtrip"
    /\ out.message.cls = "Werewolf"
    /\ "winner" \notin DOMAIN out.payload
    /\ out.message.voted # <<>>
    /\ out.payload.known_identity["0"] = <<0, 1>>
    /\ "cls" \in DOMAIN out.decoded

\* C20 (unknown type): decode of a payload whose type tag is not in the
\* registry raises the lookup's KeyError to the caller (no message of any
\* shape is returned) and leaves the registry as it was.
UnknownTypeFails ==
    (/\ out.fn = "decode"
     /\ "type" \in DOMAIN out.payload
     /\ out.payload.type \notin DOMAIN out.before)
        => (out.result = Raise("KeyError") /\ out.registry = out.before)

\* an encoded Action under a tag of no class, given to the full registry
UnknownTypeWitness ==
    /\ out.fn = "decode"
    /\ out.before = Registry
    /\ "type" \in DOMAIN out.payload
    /\ out.payload.type = "Vote"
    /\ "selector" \in DOMAIN out.payload
    /\ out.result = Raise("KeyError")

\* the agents whose identity agent a knows when the game is built
KnownAtStart(a) ==
    {a} \cup (IF roles[a] = "Werewolf"
              THEN {w \in DOMAIN roles : roles[w] = "Werewolf"} ELSE {})

\* a step that issues an observation, and a step that changes what is known
SecrecyStep ==
    /\ observed' # observed =>
         LET o == observed'[Len(observed')]
         IN  /\ DOMAIN o.known_role = known_identity[o.agent]
             /\ \A k \in DOMAIN o.known_role : o.known_role[k] = roles[k]
    /\ \A a \in DOMAIN known_identity : known_identity[a] \subseteq known_identity'[a]
    /\ known_identity' # known_identity =>
         /\ state = "Night"
         /\ pc = "check"
         /\ roles[held[1].selector] = "Seer"
         /\ held[1].selector = Head(todo)
         /\ known_identity' =
              [known_identity EXCEPT ![held[1].selector] = @ \cup {held[1].selected}]

\* C21 (role secrecy and reveal): an observation issued to an agent holds the
\* roles of exactly the agents in its known-identity set at that moment (at
\* first itself, and every werewolf when it is a werewolf); the set grows only
\* by the seer's own Night action, which adds the agent it selected to the
\* seer's set alone, and no set ever shrinks.
RoleSecrecy ==
    /\ [](DOMAIN known_identity = DOMAIN roles)
    /\ [](voted = <<>> /\ pc \in {"idle", "enter"} =>
            \A a \in DOMAIN roles : known_identity[a] = KnownAtStart(a))
    /\ [][SecrecyStep]_vars

\* the seer is observed in the Day after the Night in which it learned the
\* werewolf: the observation names the werewolf's role and not the doctor's
RoleSecrecyWitness ==
    /\ which = "forum"
    /\ observed # <<>>
    /\ LET o == observed[Len(observed)]
       IN  /\ roles[o.agent] = "Seer"
           /\ o.phase = "Day"
           /\ \E k \in DOMAIN o.known_role : k # o.agent /\ o.known_role[k] = "Werewolf"
           /\ DOMAIN o.known_role # DOMAIN roles

Living(al) == {a \in DOMAIN al : al[a]}

\* no step brings an agent back to life or changes the length of the lists
DeathStep ==
    /\ \A a \in DOMAIN alive : ~alive[a] => ~alive'[a]
    /\ Cardinality(Living(alive')) <= Cardinality(Living(alive))
    /\ DOMAIN alive' = DOMAIN alive
    /\ DOMAIN roles' = DOMAIN roles
    /\ DOMAIN known_identity' = DOMAIN known_identity

\* C22 (death is permanent and bounded): no agent ever goes from dead to
\* alive, the number of living agents never grows, and the alive list, the
\* role tuple and the known-identity map have as many entries as the game has
\* agents in every reachable state, also when agents select an index that is
\* no agent of the game.
DeathPermanent ==
    /\ [](DOMAIN alive = DOMAIN roles /\ DOMAIN known_identity = DOMAIN roles)
    /\ [][DeathStep]_vars

\* werewolf and seer have both selected index 2 in the game of two agents:
\* the seer has learned it and the kill has raised IndexError
DeathPermanentWitness ==
    /\ pc = "crashed"
    /\ DOMAIN roles = {0, 1}
    /\ pending_kill = 2
    /\ 2 \in known_identity[1]
    /\ Len(voted) = 1
    /\ Living(alive) = {0, 1}

====
